---------------------------- MODULE Spec2Model ----------------------------
(***************************************************************************)
(* A model of lsdyna_utils: the nodout extractor (nodout.py) read line by  *)
(* line, its fixed-width decoder and numeric-token repair, and the Tee     *)
(* stdout/stderr redirection of runner.py.                                 *)
(*                                                                         *)
(* Times are integers (ticks); a time step dt is the rational num/den.     *)
(* A file is a sequence of lines; a line is a header carrying a time or a  *)
(* data row carrying a node identifier and a value.  The value of row j of *)
(* block b (both 0-based block, 1-based row) is the pair <<b, j>>, so a    *)
(* decoded table tells which block and row every entry came from.          *)
(***************************************************************************)
EXTENDS Integers, Sequences, FiniteSets, TLC

\* ------------------------------------------------------------------ bounds
MaxBlocks == 5      \* files hold 0..MaxBlocks time blocks
MaxRows == 3        \* each block holds 1..MaxRows data rows
HeaderDt == 2       \* ticks between the times of consecutive headers
MaxStart == 4       \* t_start ranges over -MaxStart and 0..MaxStart ticks
MaxStepT == 4       \* t_step ranges over None and 0..MaxStepT ticks
MaxCount == 3       \* n_steps ranges over None and 0..MaxCount
MaxTotal == 4       \* t_total ranges over None, 0 and MaxTotal ticks
MaxNode == 2        \* node filters name nodes 1..MaxNode

\* ------------------------------------------------------- program constants
_BYTE0 == 10
_BYTEW == 12

None == <<>>
Some(v) == <<v>>
Val(o) == o[1]

VARIABLES
    \* ---- extract_nodout: arguments
    file, node_ids, t_total, t_start, t_step, n_steps,
    \* ---- extract_nodout: locals and control
    pc, pos, n_lines_block, lines_per_block, t0, dt, first_idx, step_span,
    skip_n, skip_l, skip_from, skip_arg, it, row_i, rows, data, err,
    \* ---- _slice_pos applied to two fields
    fieldA, fieldB, sliceA, sliceB, slice_pc,
    \* ---- _fix applied to a token
    tok, fixed, fix_pc,
    \* ---- Tee: the interpreter's streams and every Tee object
    sys_stdout, sys_stderr, tee_stdout, tee_file, tee_pc

nodoutVars == <<file, node_ids, t_total, t_start, t_step, n_steps,
                pc, pos, n_lines_block, lines_per_block, t0, dt, first_idx,
                step_span, skip_n, skip_l, skip_from, skip_arg, it, row_i,
                rows, data, err>>

sliceVars == <<fieldA, fieldB, sliceA, sliceB, slice_pc>>
fixVars == <<tok, fixed, fix_pc>>
teeVars == <<sys_stdout, sys_stderr, tee_stdout, tee_file, tee_pc>>

vars == <<nodoutVars, sliceVars, fixVars, teeVars>>

\* ------------------------------------------------------------ the file
\* Node identifier of row j of a block: the rows are not in ascending node
\* order (2, 1, 4, 3, ...), so file order and sorted order differ.
NodeOf(j) == IF j % 2 = 1 THEN j + 1 ELSE j - 1

HeaderLine(b) == [hdr |-> TRUE, time |-> b * HeaderDt, node |-> 0, val |-> <<b, 0>>]
RowLine(b, j) == [hdr |-> FALSE, time |-> 0, node |-> NodeOf(j), val |-> <<b, j>>]

\* The file of nb uniform blocks of nr rows: line (b*(nr+1) + 1) is the
\* header of block b, followed by its nr rows.
MakeFile(nb, nr) ==
    [i \in 1..(nb * (nr + 1)) |->
        LET b == (i - 1) \div (nr + 1)
            j == (i - 1) % (nr + 1)
        IN IF j = 0 THEN HeaderLine(b) ELSE RowLine(b, j)]

Files == {MakeFile(nb, nr) : nb \in 0..MaxBlocks, nr \in 1..MaxRows}

NodeFilters == {<<n>> : n \in 1..MaxNode} \cup {<<n, n + 1>> : n \in 1..(MaxNode - 1)}
                 \cup {<<n + 1, n>> : n \in 1..(MaxNode - 1)}

\* ------------------------------------------------------------ file handle
AtEOF == pos > Len(file)
\* fh.readline(): the line at the read position, the position moving past it;
\* at end of file it returns "" and the position stays.
AfterReadline == IF AtEOF THEN pos ELSE pos + 1
HasTimeKey == ~AtEOF /\ file[pos].hdr      \* "time=" in ln

\* _count_blocks(path, "time=")
_count_blocks == Cardinality({i \in 1..Len(file) : file[i].hdr})

\* Python round(): nearest integer, ties to the even one; a / b with b > 0.
Round(a, b) ==
    LET q == a \div b
        r == a % b
    IN IF 2 * r < b THEN q
       ELSE IF 2 * r > b THEN q + 1
       ELSE IF q % 2 = 0 THEN q ELSE q + 1

Raise(e) == /\ pc' = "raised"
            /\ err' = e

\* _skip_n_blocks(fh, n, lines_per_block) is entered with pc = "skip".
CallSkip(n) ==
    /\ pc' = "skip"
    /\ skip_arg' = n
    /\ skip_n' = n
    /\ skip_l' = 0
    /\ skip_from' = pos'

NodoutInit ==
    /\ file \in Files
    /\ node_ids \in {None} \cup {Some(f) : f \in NodeFilters}
    /\ t_total \in {None, Some(0), Some(MaxTotal)}
    /\ t_start \in {-MaxStart} \cup 0..MaxStart
    /\ t_step \in {None} \cup {Some(s) : s \in 0..MaxStepT}
    /\ n_steps \in {None} \cup {Some(n) : n \in 0..MaxCount}
    /\ pc = "open"
    /\ pos = 1
    /\ n_lines_block = 0
    /\ lines_per_block = 0
    /\ t0 = 0
    /\ dt = [num |-> 0, den |-> 1]
    /\ first_idx = 0
    /\ step_span = 0
    /\ skip_n = 0
    /\ skip_l = 0
    /\ skip_from = 1
    /\ skip_arg = 0
    /\ it = 0
    /\ row_i = 0
    /\ rows = <<>>
    /\ data = <<>>
    /\ err = "none"

\* lines 119-125: open, read the first line, reject a file without "time=".
ReadFirstLine ==
    /\ pc = "open"
    /\ IF ~HasTimeKey
       THEN /\ Raise("RuntimeError")
            /\ UNCHANGED <<pos, n_lines_block>>
       ELSE /\ pos' = AfterReadline
            /\ n_lines_block' = 0
            /\ pc' = "count"
            /\ UNCHANGED err
    /\ UNCHANGED <<sliceVars, fixVars, teeVars>>
    /\ UNCHANGED <<file, node_ids, t_total, t_start, t_step, n_steps,
                   lines_per_block, t0, dt, first_idx, step_span, skip_n,
                   skip_l, skip_from, skip_arg, it, row_i, rows, data>>

\* lines 126-133: count the rows up to end of file or the next "time=".
CountBlockLine ==
    /\ pc = "count"
    /\ IF AtEOF \/ HasTimeKey
       THEN /\ pos' = 2                       \* fh.seek(start_pos)
            /\ lines_per_block' = n_lines_block
            /\ pc' = "dt"
            /\ UNCHANGED n_lines_block
       ELSE /\ pos' = AfterReadline
            /\ n_lines_block' = n_lines_block + 1
            /\ UNCHANGED <<lines_per_block, pc>>
    /\ UNCHANGED <<sliceVars, fixVars, teeVars>>
    /\ UNCHANGED <<file, node_ids, t_total, t_start, t_step, n_steps,
                   t0, dt, first_idx, step_span, skip_n, skip_l, skip_from,
                   skip_arg, it, row_i, rows, data, err>>

\* lines 136-142: dt from t_total, or start the scan for the second header.
ChooseDt ==
    /\ pc = "dt"
    /\ IF t_total # None
       THEN IF _count_blocks - 1 = 0
            THEN /\ Raise("ZeroDivisionError")
                 /\ UNCHANGED <<dt, pos, t0>>
            ELSE /\ dt' = [num |-> Val(t_total), den |-> _count_blocks - 1]
                 /\ pc' = "range"
                 /\ UNCHANGED <<pos, t0, err>>
       ELSE /\ t0' = file[1].time              \* fh.seek(0); readline
            /\ pos' = 2
            /\ pc' = "dt_scan"
            /\ UNCHANGED <<dt, err>>
    /\ UNCHANGED <<sliceVars, fixVars, teeVars>>
    /\ UNCHANGED <<file, node_ids, t_total, t_start, t_step, n_steps,
                   n_lines_block, lines_per_block, first_idx, step_span,
                   skip_n, skip_l, skip_from, skip_arg, it, row_i, rows, data>>

\* lines 143-148: read lines until one holds "time="; no test for end of file.
ScanSecondHeader ==
    /\ pc = "dt_scan"
    /\ IF HasTimeKey
       THEN /\ dt' = [num |-> file[pos].time - t0, den |-> 1]
            /\ pc' = "range"
       ELSE UNCHANGED <<dt, pc>>
    /\ pos' = AfterReadline
    /\ UNCHANGED <<sliceVars, fixVars, teeVars>>
    /\ UNCHANGED <<file, node_ids, t_total, t_start, t_step, n_steps,
                   n_lines_block, lines_per_block, t0, first_idx, step_span,
                   skip_n, skip_l, skip_from, skip_arg, it, row_i, rows, data,
                   err>>

\* lines 155-167: block indices by rounding, reopen the file, skip to first_idx.
TimeRange ==
    /\ pc = "range"
    /\ IF dt.num = 0
       THEN /\ Raise("ZeroDivisionError")
            /\ UNCHANGED <<first_idx, step_span, pos, skip_n, skip_l,
                           skip_from, skip_arg>>
       ELSE /\ first_idx' = Round(t_start * dt.den, dt.num)
            /\ step_span' = IF t_step = None \/ t_step = Some(0)   \* t_step or dt
                            THEN Round(dt.num * dt.den, dt.num * dt.den)
                            ELSE Round(Val(t_step) * dt.den, dt.num)
            /\ pos' = 1
            /\ CallSkip(first_idx')
            /\ UNCHANGED err
    /\ UNCHANGED <<sliceVars, fixVars, teeVars>>
    /\ UNCHANGED <<file, node_ids, t_total, t_start, t_step, n_steps,
                   n_lines_block, lines_per_block, t0, dt, it, row_i, rows,
                   data>>

\* lines 214-215: the content lines _skip_n_blocks reads after each header.
SkipReads_OneShort(lpb) == lpb - 1
SkipReads(lpb) == lpb

\* lines 210-215: one readline of _skip_n_blocks, or its return.
SkipLine ==
    /\ pc = "skip"
    /\ IF skip_l = 0
       THEN IF skip_n <= 0
            THEN /\ pc' = IF it = 0 THEN "for_init" ELSE "for_next"
                 /\ UNCHANGED <<pos, skip_n, skip_l>>
            ELSE /\ pos' = AfterReadline         \* the header
                 /\ skip_n' = skip_n - 1
                 /\ skip_l' = SkipReads(lines_per_block)
                 /\ UNCHANGED pc
       ELSE /\ pos' = AfterReadline              \* a content line
            /\ skip_l' = skip_l - 1
            /\ UNCHANGED <<pc, skip_n>>
    /\ UNCHANGED <<sliceVars, fixVars, teeVars>>
    /\ UNCHANGED <<file, node_ids, t_total, t_start, t_step, n_steps,
                   n_lines_block, lines_per_block, t0, dt, first_idx,
                   step_span, skip_from, skip_arg, it, row_i, rows, data, err>>

\* line 168: range(int(n_steps)); n_steps is math.inf when it was not given.
ForInit ==
    /\ pc = "for_init"
    /\ IF n_steps = None
       THEN Raise("OverflowError")
       ELSE /\ pc' = "for_next"
            /\ UNCHANGED err
    /\ UNCHANGED <<sliceVars, fixVars, teeVars>>
    /\ UNCHANGED <<file, node_ids, t_total, t_start, t_step, n_steps, pos,
                   n_lines_block, lines_per_block, t0, dt, first_idx,
                   step_span, skip_n, skip_l, skip_from, skip_arg, it, row_i,
                   rows, data>>

\* lines 168-174: next iteration of the main loop, reading the block header.
ReadHeader ==
    /\ pc = "for_next"
    /\ IF it >= Val(n_steps)
       THEN /\ pc' = "vstack"
            /\ UNCHANGED <<pos, it, rows, row_i>>
       ELSE /\ it' = it + 1
            /\ pos' = AfterReadline
            /\ IF AtEOF
               THEN /\ pc' = "vstack"
                    /\ UNCHANGED <<rows, row_i>>
               ELSE /\ rows' = <<>>
                    /\ row_i' = 0
                    /\ pc' = "rows"
    /\ UNCHANGED <<sliceVars, fixVars, teeVars>>
    /\ UNCHANGED <<file, node_ids, t_total, t_start, t_step, n_steps,
                   n_lines_block, lines_per_block, t0, dt, first_idx,
                   step_span, skip_n, skip_l, skip_from, skip_arg, data, err>>

\* line 152, 181: node_ids_set = set(node_ids); the row is kept when no filter
\* was given or its node identifier is in the set.
node_ids_set == {Val(node_ids)[i] : i \in 1..Len(Val(node_ids))}
Keep_Inverted(node_id) == (node_ids = None) \/ (node_id \notin node_ids_set)
Keep(node_id) == (node_ids = None) \/ (node_id \in node_ids_set)

\* lines 176-184: one row of the block.
ReadRow ==
    /\ pc = "rows"
    /\ IF row_i >= lines_per_block
       THEN /\ pc' = "end_block"
            /\ UNCHANGED <<pos, row_i, rows>>
       ELSE /\ pos' = AfterReadline
            /\ IF AtEOF \/ HasTimeKey
               THEN /\ pc' = "end_block"
                    /\ UNCHANGED <<row_i, rows>>
               ELSE /\ row_i' = row_i + 1
                    /\ rows' = IF Keep(file[pos].node)
                               THEN Append(rows, file[pos].val)
                               ELSE rows
                    /\ UNCHANGED pc
    /\ UNCHANGED <<sliceVars, fixVars, teeVars>>
    /\ UNCHANGED <<file, node_ids, t_total, t_start, t_step, n_steps,
                   n_lines_block, lines_per_block, t0, dt, first_idx,
                   step_span, skip_n, skip_l, skip_from, skip_arg, it, data,
                   err>>

\* lines 186-191: an empty block ends the loop; otherwise the row is appended
\* and the blocks between two time-points are skipped.
EndBlock ==
    /\ pc = "end_block"
    /\ IF rows = <<>>
       THEN /\ pc' = "vstack"
            /\ UNCHANGED <<data, pos, skip_n, skip_l, skip_from, skip_arg>>
       ELSE /\ data' = Append(data, rows)
            /\ pos' = pos
            /\ CallSkip(step_span - 1)
    /\ UNCHANGED <<sliceVars, fixVars, teeVars>>
    /\ UNCHANGED <<file, node_ids, t_total, t_start, t_step, n_steps,
                   n_lines_block, lines_per_block, t0, dt, first_idx,
                   step_span, it, row_i, rows, err>>

\* lines 193-196: np.vstack(data) raises ValueError on an empty list.
Stack_RejectShort ==
    /\ pc = "vstack"
    /\ IF data = <<>> \/ Len(data) < Val(n_steps)
       THEN Raise("ValueError")
       ELSE /\ pc' = "done"
            /\ UNCHANGED err
    /\ UNCHANGED <<sliceVars, fixVars, teeVars>>
    /\ UNCHANGED <<file, node_ids, t_total, t_start, t_step, n_steps, pos,
                   n_lines_block, lines_per_block, t0, dt, first_idx,
                   step_span, skip_n, skip_l, skip_from, skip_arg, it, row_i,
                   rows, data>>

Stack ==
    /\ pc = "vstack"
    /\ IF data = <<>>
       THEN Raise("ValueError")
       ELSE /\ pc' = "done"
            /\ UNCHANGED err
    /\ UNCHANGED <<sliceVars, fixVars, teeVars>>
    /\ UNCHANGED <<file, node_ids, t_total, t_start, t_step, n_steps, pos,
                   n_lines_block, lines_per_block, t0, dt, first_idx,
                   step_span, skip_n, skip_l, skip_from, skip_arg, it, row_i,
                   rows, data>>

\* The variables of extract_nodout while no extraction runs.
NodoutIdle ==
    /\ file = <<>>
    /\ node_ids = None
    /\ t_total = None
    /\ t_start = 0
    /\ t_step = None
    /\ n_steps = None
    /\ pc = "idle"
    /\ pos = 1
    /\ n_lines_block = 0
    /\ lines_per_block = 0
    /\ t0 = 0
    /\ dt = [num |-> 0, den |-> 1]
    /\ first_idx = 0
    /\ step_span = 0
    /\ skip_n = 0
    /\ skip_l = 0
    /\ skip_from = 1
    /\ skip_arg = 0
    /\ it = 0
    /\ row_i = 0
    /\ rows = <<>>
    /\ data = <<>>
    /\ err = "none"

\* ================================================= _slice_pos (lines 27-66)
\* _Field, in catalog order.
Catalog == <<"nodal_point", "x_disp", "y_disp", "z_disp", "x_vel", "y_vel",
             "z_vel", "x_accl", "y_accl", "z_accl", "x_coor", "y_coor",
             "z_coor">>
\* The list _slice_pos indexes (0-based in the code).
IdxList == <<"x_disp", "y_disp", "z_disp", "x_vel", "y_vel", "z_vel",
             "x_accl", "y_accl", "z_accl", "x_coor", "y_coor", "z_coor">>
\* An argument outside the catalog: list.index raises ValueError.
FieldArgs == {Catalog[i] : i \in 1..Len(Catalog)} \cup {"temperature"}

NoSlice == [start |-> -1, stop |-> -1]

_slice_pos_FirstWidth(field) ==
    IF field = "nodal_point"
    THEN [start |-> 0, stop |-> _BYTE0]
    ELSE IF \E i \in 1..Len(IdxList) : IdxList[i] = field
         THEN LET idx == (CHOOSE i \in 1..Len(IdxList) : IdxList[i] = field) - 1
                  start == _BYTE0 + idx * _BYTE0
              IN [start |-> start, stop |-> start + _BYTEW]
         ELSE NoSlice

_slice_pos(field) ==
    IF field = "nodal_point"
    THEN [start |-> 0, stop |-> _BYTE0]
    ELSE IF \E i \in 1..Len(IdxList) : IdxList[i] = field
         THEN LET idx == (CHOOSE i \in 1..Len(IdxList) : IdxList[i] = field) - 1
                  start == _BYTE0 + idx * _BYTEW
              IN [start |-> start, stop |-> start + _BYTEW]
         ELSE NoSlice

SliceInit ==
    /\ fieldA \in FieldArgs
    /\ fieldB \in FieldArgs
    /\ sliceA = NoSlice
    /\ sliceB = NoSlice
    /\ slice_pc = "call"

SliceIdle ==
    /\ fieldA = "nodal_point"
    /\ fieldB = "nodal_point"
    /\ sliceA = NoSlice
    /\ sliceB = NoSlice
    /\ slice_pc = "idle"

\* _slice_pos(fieldA), then _slice_pos(fieldB).
ApplySlicePos ==
    /\ slice_pc = "call"
    /\ IF _slice_pos(fieldA) = NoSlice \/ _slice_pos(fieldB) = NoSlice
       THEN /\ slice_pc' = "raised"
            /\ UNCHANGED <<sliceA, sliceB>>
       ELSE /\ sliceA' = _slice_pos(fieldA)
            /\ sliceB' = _slice_pos(fieldB)
            /\ slice_pc' = "done"
    /\ UNCHANGED <<fieldA, fieldB, nodoutVars, fixVars, teeVars>>

\* ======================================================= _fix (lines 222-229)
MaxTokLen == 4
Chars == {"1", ".", "+", "-", "e", "E"}
Tokens == UNION {[1..n -> Chars] : n \in 0..MaxTokLen}

Lower(c) == IF c = "E" THEN "e" ELSE c
IsSign(c) == c \in {"+", "-"}

_fix_FromZero(s) ==
    IF \E i \in 1..Len(s) : Lower(s[i]) = "e"
    THEN s
    ELSE IF \E i \in 1..Len(s) : IsSign(s[i])
         THEN LET i == CHOOSE k \in 1..Len(s) :
                          IsSign(s[k]) /\ \A m \in 1..(k - 1) : ~IsSign(s[m])
              IN SubSeq(s, 1, i - 1) \o <<"e">> \o SubSeq(s, i, Len(s))
         ELSE s

\* Python index i in range(1, len(s)) is position i + 1 here.
_fix(s) ==
    IF \E i \in 1..Len(s) : Lower(s[i]) = "e"
    THEN s
    ELSE IF \E i \in 2..Len(s) : IsSign(s[i])
         THEN LET i == CHOOSE k \in 2..Len(s) :
                          IsSign(s[k]) /\ \A m \in 2..(k - 1) : ~IsSign(s[m])
              IN SubSeq(s, 1, i - 1) \o <<"e">> \o SubSeq(s, i, Len(s))
         ELSE s

FixInit ==
    /\ tok \in Tokens
    /\ fixed = <<>>
    /\ fix_pc = "call"

FixIdle ==
    /\ tok = <<>>
    /\ fixed = <<>>
    /\ fix_pc = "idle"

ApplyFix ==
    /\ fix_pc = "call"
    /\ fixed' = _fix(tok)
    /\ fix_pc' = "done"
    /\ UNCHANGED <<tok, nodoutVars, sliceVars, teeVars>>

\* ================================================ Tee (runner.py lines 48-83)
NumTees == 3
Tees == 1..NumTees
OrigStdout == <<"sys", "stdout">>
OrigStderr == <<"sys", "stderr">>
TeeStream(t) == <<"tee", t>>
NoStream == <<"none", "none">>

TeeInit ==
    /\ sys_stdout = OrigStdout
    /\ sys_stderr = OrigStderr
    /\ tee_stdout = [t \in Tees |-> NoStream]
    /\ tee_file = [t \in Tees |-> "unopened"]
    /\ tee_pc = [t \in Tees |-> "new"]

TeeIdle ==
    /\ sys_stdout = OrigStdout
    /\ sys_stderr = OrigStderr
    /\ tee_stdout = <<>>
    /\ tee_file = <<>>
    /\ tee_pc = <<>>

\* __init__ (lines 59-61): open the log file, remember the current sys.stdout.
TeeConstruct(t) ==
    /\ tee_pc[t] = "new"
    /\ tee_file' = [tee_file EXCEPT ![t] = "open"]
    /\ tee_stdout' = [tee_stdout EXCEPT ![t] = sys_stdout]
    /\ tee_pc' = [tee_pc EXCEPT ![t] = "constructed"]
    /\ UNCHANGED <<sys_stdout, sys_stderr, nodoutVars, sliceVars, fixVars>>

\* __enter__ line 75
TeeEnterStdout(t) ==
    /\ tee_pc[t] = "constructed"
    /\ sys_stdout' = TeeStream(t)
    /\ tee_pc' = [tee_pc EXCEPT ![t] = "enter_err"]
    /\ UNCHANGED <<sys_stderr, tee_stdout, tee_file, nodoutVars, sliceVars, fixVars>>

\* __enter__ line 76; the body of the with block (subprocess.run) follows.
TeeEnterStderr(t) ==
    /\ tee_pc[t] = "enter_err"
    /\ sys_stderr' = TeeStream(t)
    /\ tee_pc' = [tee_pc EXCEPT ![t] = "entered"]
    /\ UNCHANGED <<sys_stdout, tee_stdout, tee_file, nodoutVars, sliceVars, fixVars>>

\* __exit__ line 80
TeeExitStdout(t) ==
    /\ tee_pc[t] = "entered"
    /\ sys_stdout' = tee_stdout[t]
    /\ tee_pc' = [tee_pc EXCEPT ![t] = "exit_err"]
    /\ UNCHANGED <<sys_stderr, tee_stdout, tee_file, nodoutVars, sliceVars, fixVars>>

\* __exit__ line 81
TeeExitStderr(t) ==
    /\ tee_pc[t] = "exit_err"
    /\ sys_stderr' = tee_stdout[t]
    /\ tee_pc' = [tee_pc EXCEPT ![t] = "exit_close"]
    /\ UNCHANGED <<sys_stdout, tee_stdout, tee_file, nodoutVars, sliceVars, fixVars>>

\* __exit__ lines 82-83
TeeClose(t) ==
    /\ tee_pc[t] = "exit_close"
    /\ tee_file' = [tee_file EXCEPT ![t] = "closed"]
    /\ tee_pc' = [tee_pc EXCEPT ![t] = "exited"]
    /\ UNCHANGED <<sys_stdout, sys_stderr, tee_stdout, nodoutVars, sliceVars, fixVars>>

\* ============================================================ specifications
Init == NodoutInit /\ SliceIdle /\ FixIdle /\ TeeIdle

Next ==
    \/ ReadFirstLine
    \/ CountBlockLine
    \/ ChooseDt
    \/ ScanSecondHeader
    \/ TimeRange
    \/ SkipLine
    \/ ForInit
    \/ ReadHeader
    \/ ReadRow
    \/ EndBlock
    \/ Stack

Spec == Init /\ [][Next]_vars

\* The interpreter keeps executing a running call: a step that changes the
\* state is taken whenever one is possible.
FairSpec == Init /\ [][Next]_vars /\ WF_vars(Next)

InitSlice == NodoutIdle /\ SliceInit /\ FixIdle /\ TeeIdle
NextSlice == ApplySlicePos
SpecSlice == InitSlice /\ [][NextSlice]_vars

InitFix == NodoutIdle /\ SliceIdle /\ FixInit /\ TeeIdle
NextFix == ApplyFix
SpecFix == InitFix /\ [][NextFix]_vars

InitTee == NodoutIdle /\ SliceIdle /\ FixIdle /\ TeeInit
NextTee ==
    \E t \in Tees :
        \/ TeeConstruct(t)
        \/ TeeEnterStdout(t)
        \/ TeeEnterStderr(t)
        \/ TeeExitStdout(t)
        \/ TeeExitStderr(t)
        \/ TeeClose(t)
SpecTee == InitTee /\ [][NextTee]_vars

\* ==================================================================== claims
\* What the file holds, read off its lines.
NumBlocks == Cardinality({i \in 1..Len(file) : file[i].hdr})
RowsPerBlock == IF NumBlocks = 0 THEN 0 ELSE (Len(file) \div NumBlocks) - 1
BlockLine(b, j) == file[b * (RowsPerBlock + 1) + 1 + j]

Wanted(n) == (node_ids = None) \/ (\E i \in 1..Len(Val(node_ids)) : Val(node_ids)[i] = n)
WantedLine(l) == Wanted(l.node)
\* The values of block b a caller expects: its wanted rows, in file order.
ExpectedRow(b) ==
    LET kept == SelectSeq([j \in 1..RowsPerBlock |-> BlockLine(b, j)], WantedLine)
    IN [i \in 1..Len(kept) |-> kept[i].val]
FilterMatches == \E j \in 1..RowsPerBlock : Wanted(BlockLine(0, j).node)

Terminated == pc \in {"done", "raised"}
\* The arguments give a time step dt > 0: two headers to take it from, or a
\* positive t_total over at least one interval.
ValidTiming == NumBlocks >= 2 /\ (t_total = None \/ Val(t_total) > 0)
GridIdx(k) == first_idx + k * step_span
Abs(x) == IF x < 0 THEN -x ELSE x
\* n is an integer nearest to a / (dt.num / dt.den)
IsNearest(n, a) == 2 * Abs(a * dt.den - n * dt.num) <= dt.num

\* C1: on return, first_idx and step_span are the nearest integers to
\* t_start/dt and t_step/dt, and row k of the table is decoded from block
\* first_idx + k*step_span for every k < n_steps whose block exists, for
\* every step_span the rounding produces, 0 included.
C1_RowsFollowTimeGrid ==
    (pc = "done" /\ first_idx >= 0) =>
        /\ IsNearest(first_idx, t_start)
        /\ t_step # None /\ Val(t_step) # 0 => IsNearest(step_span, Val(t_step))
        /\ \A k \in 0..(Val(n_steps) - 1) :
              GridIdx(k) < NumBlocks =>
                  /\ k + 1 <= Len(data)
                  /\ data[k + 1] = ExpectedRow(GridIdx(k))

\* C2: with n_steps unset and a first block inside the file, the call
\* returns (does not raise) a table holding the row of every selected block
\* from first_idx to the end of the file.
C2_UnsetCountReadsToEnd ==
    (/\ Terminated
     /\ ValidTiming
     /\ n_steps = None
     /\ first_idx \in 0..(NumBlocks - 1)
     /\ FilterMatches) =>
        /\ pc = "done"
        /\ \A b \in first_idx..(NumBlocks - 1) :
              (step_span >= 1 /\ (b - first_idx) % step_span = 0) =>
                  \E k \in 1..Len(data) : data[k] = ExpectedRow(b)

\* C3: when the time grid runs past the end of the file (the last requested
\* block index is not in the file) and the first selected block exists, the
\* call returns without raising, and the table holds exactly the rows of the
\* selected blocks that exist, in grid order, and no row for an absent block.
C3_PartialTable ==
    (/\ Terminated
     /\ ValidTiming
     /\ n_steps # None
     /\ FilterMatches
     /\ first_idx \in 0..(NumBlocks - 1)
     /\ Val(n_steps) >= 1
     /\ GridIdx(Val(n_steps) - 1) >= NumBlocks) =>
        /\ pc = "done"
        /\ Len(data) = Cardinality({k \in 0..(Val(n_steps) - 1) : GridIdx(k) < NumBlocks})
        /\ Len(data) < Val(n_steps)
        /\ \A k \in 1..Len(data) : data[k] = ExpectedRow(GridIdx(k - 1))

C3_Witness ==
    /\ pc = "done"
    /\ ValidTiming
    /\ first_idx = 1
    /\ step_span = 2
    /\ n_steps = Some(3)
    /\ NumBlocks = 4
    /\ Len(data) = 2
    /\ data[2] = ExpectedRow(3)

\* C4: a call whose first_idx is negative or exceeds the number of blocks
\* ends in an error, never in a table.
C4_OutOfRangeRaises ==
    (/\ Terminated
     /\ ValidTiming
     /\ (first_idx < 0 \/ first_idx > NumBlocks)) => pc = "raised"

\* C5: with a node filter, every row of the table holds exactly one value
\* for each row of its block whose node identifier is in the filter and none
\* for any other row, in the order of the rows in the block.
C5_FilteredRowInFileOrder ==
    node_ids # None =>
        \A k \in 1..Len(data) :
            LET d == data[k]
                b == d[1][1]
                F == {Val(node_ids)[i] : i \in 1..Len(Val(node_ids))}
            IN /\ \A i \in 1..Len(d) :
                     /\ d[i][1] = b
                     /\ d[i][2] \in 1..RowsPerBlock
                     /\ BlockLine(b, d[i][2]).node \in F
                     /\ BlockLine(b, d[i][2]).val = d[i]
               /\ \A i, m \in 1..Len(d) : i < m => d[i][2] < d[m][2]
               /\ \A j \in 1..RowsPerBlock :
                     BlockLine(b, j).node \in F => \E i \in 1..Len(d) : d[i][2] = j

\* The filter names node 1 then node 2; the block holds node 2 (row 1), then
\* node 1 (row 2), then node 4: the row is node 2's value, then node 1's.
C5_Witness ==
    /\ pc = "done"
    /\ node_ids = Some(<<1, 2>>)
    /\ RowsPerBlock = 3
    /\ data[1] = << <<0, 1>>, <<0, 2>> >>
    /\ BlockLine(0, 1).node = 2
    /\ BlockLine(0, 2).node = 1

Min(a, b) == IF a < b THEN a ELSE b
Max(a, b) == IF a < b THEN b ELSE a

\* C6: the pre-scan finds the row count of the first block, and a completed
\* _skip_n_blocks(fh, n, lines_per_block) has moved the read position by
\* n * (1 + lines_per_block) lines (stopping at end of file) and added no
\* row to the table (one row per iteration begun).  With headers at lines 1, 5, 9 and 3 rows each the count is 3 and
\* skipping one block from the header at line 5 ends at line 9.
C6_SkipMovesWholeBlocks ==
    /\ (pc \notin {"open", "count"} /\ err # "RuntimeError") =>
           lines_per_block = RowsPerBlock
    /\ pc \in {"for_init", "for_next"} =>
           /\ pos = Min(skip_from + Max(skip_arg, 0) * (1 + RowsPerBlock), Len(file) + 1)
           /\ Len(data) = it

C6_Witness ==
    /\ \A i \in 1..Len(file) : file[i].hdr <=> i \in {1, 5, 9}
    /\ Len(file) = 12
    /\ lines_per_block = 3
    /\ pc = "for_next"
    /\ skip_arg = 1
    /\ skip_from = 5
    /\ pos = 9

\* C7: the slices of two catalog fields, the first earlier in the catalog,
\* do not overlap and increase in catalog order; neighbours are contiguous;
\* the node identifier is [0, 10), the i-th later field (from 0) is
\* [10 + 12 i, 10 + 12 (i + 1)), and the last ends at 10 + 12 * 12.
OrdinalOf(f) == CHOOSE i \in 1..Len(Catalog) : Catalog[i] = f
C7_SlicesTileTheRow ==
    slice_pc = "done" =>
        LET ia == OrdinalOf(fieldA)
            ib == OrdinalOf(fieldB)
        IN /\ Len(Catalog) = 13
           /\ sliceA.start < sliceA.stop
           /\ ia < ib => sliceA.stop <= sliceB.start
           /\ ib = ia + 1 => sliceA.stop = sliceB.start
           /\ ia = 1 => sliceA = [start |-> 0, stop |-> 10]
           /\ ia > 1 => sliceA = [start |-> 10 + 12 * (ia - 2), stop |-> 10 + 12 * (ia - 1)]
           /\ ib = 13 => sliceB.stop = 10 + 12 * 12

C7_Witness ==
    /\ slice_pc = "done"
    /\ fieldA = "z_accl"
    /\ fieldB = "x_coor"
    /\ sliceA.stop = sliceB.start

\* C8: a token holding e or E is returned unchanged; otherwise an e is put
\* immediately before the first + or - found after position 0, and every
\* other character stays, in order.
C8_FixInsertsExponent ==
    fix_pc = "done" =>
        IF \E i \in 1..Len(tok) : tok[i] \in {"e", "E"}
        THEN fixed = tok
        ELSE \A i \in 2..Len(tok) :
                (tok[i] \in {"+", "-"} /\ \A m \in 2..(i - 1) : tok[m] \notin {"+", "-"}) =>
                    /\ Len(fixed) = Len(tok) + 1
                    /\ fixed[i] = "e"
                    /\ \A m \in 1..(i - 1) : fixed[m] = tok[m]
                    /\ \A m \in i..Len(tok) : fixed[m + 1] = tok[m]

\* A leading sign stays where it is: "-1-1" becomes "-1e-1".
C8_Witness ==
    /\ fix_pc = "done"
    /\ tok = <<"-", "1", "-", "1">>
    /\ fixed = <<"-", "1", "e", "-", "1">>

\* C9: every call on a file whose first line holds the time marker ends,
\* with a table or with an error.
C9_Terminates == <>Terminated

\* C10: once every Tee that was constructed has exited (and one was),
\* sys.stdout and sys.stderr are the streams installed before the first Tee,
\* and no exited Tee is installed as either.
C10_StreamsRestored ==
    (/\ \A t \in Tees : tee_pc[t] \in {"new", "exited"}
     /\ \E t \in Tees : tee_pc[t] = "exited") =>
        /\ sys_stdout = OrigStdout
        /\ sys_stderr = OrigStderr
        /\ \A t \in Tees : tee_file[t] = "closed" =>
               (sys_stdout # TeeStream(t) /\ sys_stderr # TeeStream(t))

=============================================================================
